---- MODULE Spec2Model ----
(***************************************************************************)
(* Participation / submission lifecycle and engagement counters of the     *)
(* campaign platform.  The durable store (PostgreSQL through Sequelize) is *)
(* the shared state; every request handler is a process whose steps are    *)
(* its awaited storage calls, so that handlers interleave exactly at the   *)
(* points where the code awaits.                                           *)
(***************************************************************************)
EXTENDS Integers, FiniteSets, Sequences, TLC

\* ------------------------------------------------------------------ bounds
\* Number of like-toggle request slots (each slot serves one request).
MaxLikeReqs == 3
\* Number of trackShare request slots.
MaxShareReqs == 3

\* ------------------------------------------------------------- identities
\* Entities that can be liked: one campaign row and one project row.  The two
\* toggleLike handlers are the same code over Campaign/CampaignLike and
\* Project/ProjectLike.
Entities == {"campaign", "project"}
\* An id for which findByPk returns null.
MissingEntity == "missing"
\* Authenticated callers; NoUser is a request whose req.user is unset.
LikeUsers == {"u1", "u2"}
NoUser == "nobody"

LikeReqs == 1..MaxLikeReqs

ShareReqs == 1..MaxShareReqs

VARIABLES
    likesCount,     \* [Entities -> Int]: campaigns.likes_count / projects.likes_count
    likes,          \* rows of campaign_likes / project_likes: [id, entity, user]
    nextLikeId,     \* the SERIAL sequence of the like tables
    lreq,           \* [LikeReqs -> request record]: the toggleLike calls
    sharesCount,    \* projects.shares_count of the project row
    shares,         \* rows of project_shares: [id, entity, user, platform]
    nextShareId,    \* the SERIAL sequence of project_shares
    sreq,           \* [ShareReqs -> request record]: the trackShare calls
    now,            \* the wall clock read by `new Date()`
    campaigns,      \* [CampaignIds -> campaign row]: the campaigns table
    participations, \* rows of campaign_participations
    submissions,    \* rows of campaign_submissions
    nextPartId,     \* the SERIAL sequence of campaign_participations
    nextSubId,      \* the SERIAL sequence of campaign_submissions
    req,            \* [Handlers -> request record]: lifecycle requests being served
    last            \* the response issued last by a lifecycle handler

likeVars == <<likesCount, likes, nextLikeId, lreq>>

shareVars == <<sharesCount, shares, nextShareId, sreq>>

lifeVars == <<now, campaigns, participations, submissions, nextPartId, nextSubId, req, last>>

vars == <<likesCount, likes, nextLikeId, lreq, sharesCount, shares, nextShareId, sreq,
          now, campaigns, participations, submissions, nextPartId, nextSubId, req, last>>

\* ------------------------------------------------------------ like: store
NoResp == [status |-> 0]
IdleLike == [pc |-> "idle", entity |-> MissingEntity, user |-> NoUser,
             existing |-> 0, resp |-> NoResp]

\* A lookup that finds nothing.
NoLikeRows(e, u) == {}

\* CampaignLike.findOne({where: {campaignId, userId}}): the rows that match.
LikeRowsOf(e, u) == {l \in likes : l.entity = e /\ l.user = u}

\* Number of like rows of an entity (the value likes_count is meant to mirror).
LikeRowCount(e) == Cardinality({l \in likes : l.entity = e})

\* Mutant: the table without its unique index.
NoUniqueLikeIndex(e, u) == FALSE

\* unique_campaign_user_like / unique_project_user_like: an INSERT of (e, u)
\* is refused when a row for the pair is already stored.
UniqueLikeViolated(e, u) == LikeRowsOf(e, u) # {}

\* ---------------------------------------------------------- like: handler
\* The checks without the one on the caller's identity.
ToggleEntryStatusNoAuth(e, u) ==
    IF e \notin Entities THEN 404
    ELSE 0

\* The status of the response that ends toggleLike at its entry checks
\* (!userId, then the entity returned by findByPk), or 0 when both pass.
ToggleEntryStatus(e, u) ==
    IF u = NoUser THEN 401
    ELSE IF e \notin Entities THEN 404
    ELSE 0

\* toggleLike, up to and including `await Campaign.findByPk(id)`.
ToggleFindEntity(r, e, u) ==
    /\ lreq[r].pc = "idle"
    /\ \A q \in LikeReqs : q < r => lreq[q].pc # "idle"
    /\ IF ToggleEntryStatus(e, u) # 0
         THEN lreq' = [lreq EXCEPT ![r] = [pc |-> "done", entity |-> e, user |-> u,
                          existing |-> 0, resp |-> [status |-> ToggleEntryStatus(e, u)]]]
         ELSE lreq' = [lreq EXCEPT ![r] = [pc |-> "findLike", entity |-> e,
                          user |-> u, existing |-> 0, resp |-> NoResp]]
    /\ UNCHANGED <<likesCount, likes, nextLikeId>>
    /\ UNCHANGED <<lifeVars, shareVars>>

\* `await CampaignLike.findOne(...)` and the branch on existingLike.
ToggleFindLike(r) ==
    /\ lreq[r].pc = "findLike"
    /\ LET rows == LikeRowsOf(lreq[r].entity, lreq[r].user) IN
         IF rows = {}
           THEN lreq' = [lreq EXCEPT ![r].pc = "create"]
           ELSE \E l \in rows :
                  lreq' = [lreq EXCEPT ![r].pc = "destroy", ![r].existing = l.id]
    /\ UNCHANGED <<likesCount, likes, nextLikeId>>
    /\ UNCHANGED <<lifeVars, shareVars>>

\* `await existingLike.destroy()`: DELETE ... WHERE id = existingLike.id; a
\* row that is already gone deletes nothing and raises nothing.
ToggleDestroy(r) ==
    /\ lreq[r].pc = "destroy"
    /\ likes' = {l \in likes : l.id # lreq[r].existing}
    /\ lreq' = [lreq EXCEPT ![r].pc = "decrement"]
    /\ UNCHANGED <<likesCount, nextLikeId>>
    /\ UNCHANGED <<lifeVars, shareVars>>

\* `await campaign.decrement('likesCount')`: UPDATE ... SET likes_count =
\* likes_count - 1, one atomic statement.
ToggleDecrement(r) ==
    /\ lreq[r].pc = "decrement"
    /\ likesCount' = [likesCount EXCEPT ![lreq[r].entity] = @ - 1]
    /\ lreq' = [lreq EXCEPT ![r].pc = "reloadUnliked"]
    /\ UNCHANGED <<likes, nextLikeId>>
    /\ UNCHANGED <<lifeVars, shareVars>>

\* `await CampaignLike.create(...)`: the INSERT draws an id from the sequence;
\* a unique violation throws, and the catch hands the error to the error
\* middleware, which answers 500 (the error carries no statusCode).
ToggleCreate(r) ==
    /\ lreq[r].pc = "create"
    /\ nextLikeId' = nextLikeId + 1
    /\ IF UniqueLikeViolated(lreq[r].entity, lreq[r].user)
         THEN /\ lreq' = [lreq EXCEPT ![r].pc = "done", ![r].resp = [status |-> 500]]
              /\ UNCHANGED likes
         ELSE /\ likes' = likes \cup {[id |-> nextLikeId, entity |-> lreq[r].entity,
                                       user |-> lreq[r].user]}
              /\ lreq' = [lreq EXCEPT ![r].pc = "increment"]
    /\ UNCHANGED likesCount
    /\ UNCHANGED <<lifeVars, shareVars>>

\* `await campaign.increment('likesCount')`.
ToggleIncrement(r) ==
    /\ lreq[r].pc = "increment"
    /\ likesCount' = [likesCount EXCEPT ![lreq[r].entity] = @ + 1]
    /\ lreq' = [lreq EXCEPT ![r].pc = "reloadLiked"]
    /\ UNCHANGED <<likes, nextLikeId>>
    /\ UNCHANGED <<lifeVars, shareVars>>

\* `await campaign.reload()` and res.json({liked, likesCount}).
ToggleRespond(r) ==
    /\ lreq[r].pc \in {"reloadLiked", "reloadUnliked"}
    /\ lreq' = [lreq EXCEPT ![r].pc = "done",
                  ![r].resp = [status |-> 200,
                               liked |-> (lreq[r].pc = "reloadLiked"),
                               likesCount |-> likesCount[lreq[r].entity]]]
    /\ UNCHANGED <<likesCount, likes, nextLikeId>>
    /\ UNCHANGED <<lifeVars, shareVars>>

\* ------------------------------------------------------ like: getLikeStatus
\* req.user?.id in getLikeStatus, for a request sent with the identity u: the
\* like-status routes install no authentication middleware, so req.user is
\* never set.
StatusUserId(u) == NoUser

\* getLikeStatus up to and including `await Campaign.findByPk(id)`; without a
\* userId the handler answers at once with liked = false.  The count answered
\* is the one of the instance loaded here.
StatusFindEntity(r, e, u) ==
    /\ lreq[r].pc = "idle"
    /\ \A q \in LikeReqs : q < r => lreq[q].pc # "idle"
    /\ IF e \notin Entities
         THEN lreq' = [lreq EXCEPT ![r] = [pc |-> "statusDone", entity |-> e, user |-> u,
                          existing |-> 0, resp |-> [status |-> 404]]]
         ELSE IF StatusUserId(u) = NoUser
           THEN lreq' = [lreq EXCEPT ![r] = [pc |-> "statusDone", entity |-> e, user |-> u,
                            existing |-> 0,
                            resp |-> [status |-> 200, liked |-> FALSE,
                                      likesCount |-> likesCount[e]]]]
           ELSE lreq' = [lreq EXCEPT ![r] = [pc |-> "statusFindLike", entity |-> e,
                            user |-> u, existing |-> 0,
                            resp |-> [status |-> 0, likesCount |-> likesCount[e]]]]
    /\ UNCHANGED <<likesCount, likes, nextLikeId>>
    /\ UNCHANGED <<lifeVars, shareVars>>

\* `await CampaignLike.findOne(...)` of getLikeStatus and the response.
StatusFindLike(r) ==
    /\ lreq[r].pc = "statusFindLike"
    /\ lreq' = [lreq EXCEPT ![r].pc = "statusDone",
                            ![r].resp = [status |-> 200,
                                         liked |-> LikeRowsOf(lreq[r].entity,
                                                              StatusUserId(lreq[r].user)) # {},
                                         likesCount |-> lreq[r].resp.likesCount]]
    /\ UNCHANGED <<likesCount, likes, nextLikeId>>
    /\ UNCHANGED <<lifeVars, shareVars>>

\* =================================================== lifecycle: identities
\* The clock runs over 0..MaxNow.
MaxNow == 2
\* Number of request handlers that can be in flight at once.
MaxHandlers == 2

\* Campaign 1 is stored; findByPk(2) returns null.
CampaignIds == {1}
MissingCampaign == 2

NullStr == "null"
NullInt == -1

\* users.role of the callers (the role of a user can be changed by an
\* administrator after the user created a campaign, so the creator of a
\* campaign need not be an administrator any more).
Role(u) ==
    CASE u = "stu" -> "STUDENT"
      [] u = "stu2" -> "STUDENT"
      [] u = "stu3" -> "STUDENT"
      [] u = "owner" -> "SPONSOR"
      [] u = "admin" -> "ADMIN"
      [] OTHER -> "BASE_USER"

LifeUsers == {"stu", "stu2", "stu3", "owner", "admin", "guest"}

\* students.verification_status of the caller's student profile, by the name
\* of the VerificationStatus member; "none" when Student.findOne returns null.
StudentVerification(u) ==
    CASE u = "stu" -> "APPROVED"
      [] u = "stu2" -> "PENDING"
      [] OTHER -> "none"

Handlers == 1..MaxHandlers

\* ------------------------------------------------------- share: trackShare
\* The project whose shares are tracked; trackShare exists for projects only.
SharedProject == "project"
\* req.body.platform; NoPlatform is a body without the key.
NoPlatform == "none"
Platforms == {"twitter", NoPlatform}

IdleShare == [pc |-> "idle", entity |-> MissingEntity, user |-> NoUser,
              platform |-> NoPlatform, resp |-> NoResp]

\* req.user?.id in trackShare, for a request sent with the identity u: the
\* share route installs no authentication middleware, so req.user is never
\* set.
ShareUserId(u) == NoUser

\* `const { platform = 'direct' } = req.body`.
SharePlatform(p) == IF p = NoPlatform THEN "direct" ELSE p

\* An increment that writes the count back unchanged.
ShareNotIncremented(n) == n

\* project.increment('sharesCount'): UPDATE ... SET shares_count =
\* shares_count + 1, one statement computed by the database on the stored
\* value.
ShareIncremented(n) == n + 1

\* trackShare up to and including `await Project.findByPk(id)`; a missing
\* project is answered 404.
ShareFindEntity(r, e, u, p) ==
    /\ sreq[r].pc = "idle"
    /\ \A q \in ShareReqs : q < r => sreq[q].pc # "idle"
    /\ sreq' = [sreq EXCEPT ![r] =
                  IF e # SharedProject
                    THEN [pc |-> "done", entity |-> e, user |-> u, platform |-> p,
                          resp |-> [status |-> 404]]
                    ELSE [pc |-> "increment", entity |-> e, user |-> u, platform |-> p,
                          resp |-> NoResp]]
    /\ UNCHANGED <<sharesCount, shares, nextShareId>>
    /\ UNCHANGED <<likeVars, lifeVars>>

\* `await project.increment('sharesCount')`, then `if (userId)`.
ShareIncrement(r) ==
    /\ sreq[r].pc = "increment"
    /\ sharesCount' = ShareIncremented(sharesCount)
    /\ sreq' = [sreq EXCEPT ![r].pc = IF ShareUserId(sreq[r].user) = NoUser
                                        THEN "reload" ELSE "insert"]
    /\ UNCHANGED <<shares, nextShareId>>
    /\ UNCHANGED <<likeVars, lifeVars>>

\* `await ProjectShare.create({projectId, userId, platform})` inside its own
\* try/catch: the row is inserted, or the statement fails and the failure is
\* only logged.
ShareInsert(r) ==
    /\ sreq[r].pc = "insert"
    /\ \/ /\ shares' = shares \cup {[id |-> nextShareId, entity |-> sreq[r].entity,
                                     user |-> ShareUserId(sreq[r].user),
                                     platform |-> SharePlatform(sreq[r].platform)]}
          /\ nextShareId' = nextShareId + 1
       \/ UNCHANGED <<shares, nextShareId>>
    /\ sreq' = [sreq EXCEPT ![r].pc = "reload"]
    /\ UNCHANGED sharesCount
    /\ UNCHANGED <<likeVars, lifeVars>>

\* `await project.reload()` and the success response with the count read.
ShareRespond(r) ==
    /\ sreq[r].pc = "reload"
    /\ sreq' = [sreq EXCEPT ![r].pc = "done",
                            ![r].resp = [status |-> 200, sharesCount |-> sharesCount]]
    /\ UNCHANGED <<sharesCount, shares, nextShareId>>
    /\ UNCHANGED <<likeVars, lifeVars>>

\* ------------------------------------------------- lifecycle: request data
\* express-validator chains of the routes, over the request bodies the model
\* draws.  Text fields are represented by their lengths.
ApplyBodies ==
    {[motivation |-> 10, experience |-> 10], [motivation |-> 9, experience |-> 10]}

\* participateValidation
ParticipateValid(b) ==
    /\ b.motivation >= 10 /\ b.motivation <= 1000
    /\ b.experience >= 10 /\ b.experience <= 1000

ReviewBodies ==
    {[status |-> st, reviewNotes |-> n] :
        st \in {"approved", "rejected", "pending"}, n \in {NullStr, "note", "other note"}}

\* reviewParticipationValidation
ReviewValid(b) == b.status \in {"approved", "rejected"}

SubmitBodies ==
    {[projectTitle |-> 3, projectDescription |-> 10, projectScreenshots |-> 1],
     [projectTitle |-> 3, projectDescription |-> 10, projectScreenshots |-> 0],
     [projectTitle |-> 0, projectDescription |-> 10, projectScreenshots |-> 1]}

\* submitProjectValidation
SubmitValid(b) ==
    /\ b.projectTitle >= 3 /\ b.projectTitle <= 255
    /\ b.projectDescription >= 10
    /\ b.projectScreenshots >= 1

\* Bodies of the grade route; NullStr / NullInt stand for an omitted field.
GradeBodies ==
    {[score |-> 92, grade |-> "A", feedback |-> "good", status |-> "winner",
      position |-> 1, prizeAmount |-> 500],
     [score |-> 40, grade |-> "F", feedback |-> NullStr, status |-> NullStr,
      position |-> NullInt, prizeAmount |-> NullInt],
     [score |-> 101, grade |-> "A", feedback |-> NullStr, status |-> NullStr,
      position |-> NullInt, prizeAmount |-> NullInt],
     [score |-> 92, grade |-> "Z", feedback |-> NullStr, status |-> "graded",
      position |-> NullInt, prizeAmount |-> NullInt],
     [score |-> 92, grade |-> "A", feedback |-> NullStr, status |-> "submitted",
      position |-> NullInt, prizeAmount |-> NullInt],
     [score |-> 92, grade |-> "A", feedback |-> NullStr, status |-> "under_review",
      position |-> NullInt, prizeAmount |-> NullInt],
     [score |-> 92, grade |-> "A", feedback |-> NullStr, status |-> "winner",
      position |-> 4, prizeAmount |-> NullInt]}

\* The chains without the one on score.
GradeValidNoScore(b) ==
    /\ b.grade \in {"A+", "A", "B+", "B", "C+", "C", "D", "F"}
    /\ (b.status # NullStr => b.status \in {"graded", "winner", "runner_up", "not_selected"})
    /\ (b.position # NullInt => (b.position >= 1 /\ b.position <= 3))

\* The chains without the one on status.
GradeValidAnyStatus(b) ==
    /\ b.score >= 0 /\ b.score <= 100
    /\ b.grade \in {"A+", "A", "B+", "B", "C+", "C", "D", "F"}
    /\ (b.position # NullInt => (b.position >= 1 /\ b.position <= 3))

\* gradeSubmissionValidation
GradeValid(b) ==
    /\ b.score >= 0 /\ b.score <= 100
    /\ b.grade \in {"A+", "A", "B+", "B", "C+", "C", "D", "F"}
    /\ (b.status # NullStr => b.status \in {"graded", "winner", "runner_up", "not_selected"})
    /\ (b.position # NullInt => (b.position >= 1 /\ b.position <= 3))

NoBody == [none |-> TRUE]

\* A handler at rest.
IdleReq == [pc |-> "idle", op |-> "none", caller |-> NullStr, campaign |-> NullInt,
            target |-> NullInt, part |-> NullInt, body |-> NoBody, at |-> NullInt]

\* No response yet.
NoLast == [op |-> "none", caller |-> NullStr, campaign |-> NullInt,
           target |-> NullInt, part |-> NullInt, body |-> NoBody, at |-> NullInt,
           created |-> NullInt, status |-> 0, message |-> "none"]

\* A request entering a handler: op, caller, campaign id, target row id, body.
Request(op, u, c, t, b) ==
    [pc |-> "start", op |-> op, caller |-> u, campaign |-> c, target |-> t,
     part |-> NullInt, body |-> b, at |-> NullInt]

\* The verdict of a run of checks: the response that ends the handler, or Pass.
Pass == <<0, "pass">>

\* res.status(code).json({message}) followed by return: the handler is done
\* and the response is the last one issued.  `created` is the id of the row
\* the request inserted, if any.
Reply(h, r, verdict, created) ==
    /\ req' = [req EXCEPT ![h] = IdleReq]
    /\ last' = [op |-> r.op, caller |-> r.caller, campaign |-> r.campaign,
                target |-> r.target, part |-> r.part, body |-> r.body, at |-> r.at,
                created |-> created, status |-> verdict[1], message |-> verdict[2]]

\* The handler goes on to its next awaited call.
Proceed(h, r, pc) ==
    /\ req' = [req EXCEPT ![h] = [r EXCEPT !.pc = pc]]
    /\ UNCHANGED last

\* ------------------------------------------------------- lifecycle: store
\* CampaignParticipation.findOne({where: {campaignId, userId}})
ParticipationsOf(c, u) ==
    {p \in participations : p.campaignId = c /\ p.userId = u}

\* Mutant: the lookup without its status condition.
AnyParticipationsOf(c, u) == ParticipationsOf(c, u)

\* CampaignParticipation.findOne({where: {campaignId, userId, status: 'approved'}})
ApprovedParticipationsOf(c, u) ==
    {p \in ParticipationsOf(c, u) : p.status = "approved"}

\* CampaignSubmission.findOne({where: {participationId}})
SubmissionsOf(pid) == {s \in submissions : s.participationId = pid}

\* Mutant: campaign_submissions without UNIQUE(participation_id).
NoUniqueParticipationId(pid) == FALSE

\* UNIQUE(participation_id) of campaign_submissions.
UniqueSubmissionViolated(pid) == SubmissionsOf(pid) # {}

\* Mutant: the table without its trigger.
NoTrigger(pid, st) == participations

\* update_participation_submission_status: the row trigger of
\* campaign_submissions writes submission_status of the owning participation
\* in the statement's own transaction.
TriggerSetStatus(pid, st) ==
    {IF p.id = pid THEN [p EXCEPT !.submissionStatus = st] ELSE p : p \in participations}

\* ---------------------------------------------- lifecycle: participateInCampaign
\* Mutant: the verification check dropped.
ApplyEntryVerdictNoVerification(u, b) ==
    IF ~ParticipateValid(b) THEN <<400, "validation">>
    ELSE IF Role(u) # "STUDENT" THEN <<403, "only students">>
    ELSE Pass

\* validationResult, the role check, and the checks on the student profile
\* returned by Student.findOne.
ApplyEntryVerdict(u, b) ==
    IF ~ParticipateValid(b) THEN <<400, "validation">>
    ELSE IF Role(u) # "STUDENT" THEN <<403, "only students">>
    ELSE IF StudentVerification(u) = "none" THEN <<403, "no student profile">>
    ELSE IF StudentVerification(u) # "APPROVED" THEN <<403, "verification required">>
    ELSE Pass

\* The checks with the status compared to CampaignStatus.ACTIVE.
ApplyCampaignVerdictUpper(c) ==
    IF c \notin CampaignIds THEN <<404, "campaign not found">>
    ELSE IF campaigns[c].status # "ACTIVE" THEN <<400, "campaign not active">>
    ELSE IF ~campaigns[c].fundingTrail THEN <<400, "participation not allowed">>
    ELSE Pass

\* The checks on the campaign returned by Campaign.findByPk.
ApplyCampaignVerdict(c) ==
    IF c \notin CampaignIds THEN <<404, "campaign not found">>
    ELSE IF campaigns[c].status # "active" THEN <<400, "campaign not active">>
    ELSE IF ~campaigns[c].fundingTrail THEN <<400, "participation not allowed">>
    ELSE Pass

\* participateInCampaign up to and including `await Student.findOne`.
ApplyCheckStudent(h, u, c, b) ==
    /\ req[h].pc = "idle"
    /\ LET r == Request("apply", u, c, NullInt, b)
           v == ApplyEntryVerdict(u, b) IN
         IF v = Pass THEN Proceed(h, r, "applyFindCampaign") ELSE Reply(h, r, v, NullInt)
    /\ UNCHANGED <<now, campaigns, participations, submissions, nextPartId, nextSubId>>
    /\ UNCHANGED <<likeVars, shareVars>>

\* `await Campaign.findByPk(campaignId)` and the checks on the campaign.
ApplyFindCampaign(h) ==
    /\ req[h].pc = "applyFindCampaign"
    /\ LET v == ApplyCampaignVerdict(req[h].campaign) IN
         IF v = Pass THEN Proceed(h, req[h], "applyFindExisting")
                     ELSE Reply(h, req[h], v, NullInt)
    /\ UNCHANGED <<now, campaigns, participations, submissions, nextPartId, nextSubId>>
    /\ UNCHANGED <<likeVars, shareVars>>

\* `await CampaignParticipation.findOne(...)`: has the user applied already?
ApplyFindExisting(h) ==
    /\ req[h].pc = "applyFindExisting"
    /\ IF ParticipationsOf(req[h].campaign, req[h].caller) # {}
         THEN Reply(h, req[h], <<400, "already participated">>, NullInt)
         ELSE Proceed(h, req[h], "applyCreate")
    /\ UNCHANGED <<now, campaigns, participations, submissions, nextPartId, nextSubId>>
    /\ UNCHANGED <<likeVars, shareVars>>

\* The row with the status the reviewer would give.
NewParticipationApproved(id, c, u) ==
    [id |-> id, campaignId |-> c, userId |-> u,
     status |-> "approved", submissionStatus |-> "not_submitted",
     reviewedBy |-> NullStr, reviewNotes |-> NullStr]

\* The row CampaignParticipation.create inserts: status 'pending' as given,
\* submission_status from the column default, no review yet.
NewParticipation(id, c, u) ==
    [id |-> id, campaignId |-> c, userId |-> u,
     status |-> "pending", submissionStatus |-> "not_submitted",
     reviewedBy |-> NullStr, reviewNotes |-> NullStr]

\* `await CampaignParticipation.create(...)`: the table carries no unique
\* index on (campaign_id, user_id); submission_status takes the column default.
ApplyCreate(h) ==
    /\ req[h].pc = "applyCreate"
    /\ participations' = participations \cup
         {NewParticipation(nextPartId, req[h].campaign, req[h].caller)}
    /\ nextPartId' = nextPartId + 1
    /\ Reply(h, req[h], <<201, "participation submitted">>, nextPartId)
    /\ UNCHANGED <<now, campaigns, submissions, nextSubId>>
    /\ UNCHANGED <<likeVars, shareVars>>

\* ------------------------------------------------ lifecycle: reviewParticipation
\* The check without the creator's exemption.
NotAdmin(c, u) == Role(u) # "ADMIN"

\* campaign.createdBy !== userId && userRole !== 'ADMIN'
NotCreatorNorAdmin(c, u) == campaigns[c].createdBy # u /\ Role(u) # "ADMIN"

\* validationResult, the participation returned by findByPk(id, {include:
\* campaign}) and the creator-or-admin check.
ReviewEntryVerdict(u, pid, b) ==
    LET found == {p \in participations : p.id = pid} IN
      IF ~ReviewValid(b) THEN <<400, "validation">>
      ELSE IF found = {} THEN <<404, "participation not found">>
      ELSE IF \E p \in found : NotCreatorNorAdmin(p.campaignId, u)
        THEN <<403, "access denied">>
      ELSE Pass

\* reviewParticipation up to and including `await CampaignParticipation.findByPk`.
ReviewFind(h, u, pid, b) ==
    /\ req[h].pc = "idle"
    /\ LET r == Request("review", u, NullInt, pid, b)
           v == ReviewEntryVerdict(u, pid, b) IN
         IF v = Pass THEN Proceed(h, r, "reviewUpdate") ELSE Reply(h, r, v, NullInt)
    /\ UNCHANGED <<now, campaigns, participations, submissions, nextPartId, nextSubId>>
    /\ UNCHANGED <<likeVars, shareVars>>

\* An UPDATE that also resets the submission status of a participation
\* that is no longer approved.
ReviewWriteResets(p, b, u) ==
    [p EXCEPT !.status = b.status,
              !.reviewNotes = IF b.reviewNotes = NullStr THEN @ ELSE b.reviewNotes,
              !.reviewedBy = u,
              !.submissionStatus = IF b.status = "approved" THEN @ ELSE "not_submitted"]

\* The row p after `participation.update({status, reviewNotes, reviewedAt,
\* reviewedBy})`: the UPDATE sets exactly the keys whose value is defined.
ReviewWrite(p, b, u) ==
    [p EXCEPT !.status = b.status,
              !.reviewNotes = IF b.reviewNotes = NullStr THEN @ ELSE b.reviewNotes,
              !.reviewedBy = u]

\* `await participation.update(...)`: one UPDATE by primary key.
ReviewUpdate(h) ==
    /\ req[h].pc = "reviewUpdate"
    /\ participations' =
         {IF p.id = req[h].target THEN ReviewWrite(p, req[h].body, req[h].caller) ELSE p :
            p \in participations}
    /\ Reply(h, req[h], <<200, "participation reviewed">>, NullInt)
    /\ UNCHANGED <<now, campaigns, submissions, nextPartId, nextSubId>>
    /\ UNCHANGED <<likeVars, shareVars>>

\* ------------------------------------------------------ lifecycle: submitProject
\* Mutant: the start of the window excluded from the window.
BeforeWindowInclusive(c, t) ==
    campaigns[c].submissionStartDate # NullInt /\ t <= campaigns[c].submissionStartDate

\* campaign.submissionStartDate && now < new Date(campaign.submissionStartDate)
BeforeWindow(c, t) ==
    campaigns[c].submissionStartDate # NullInt /\ t < campaigns[c].submissionStartDate

\* campaign.submissionEndDate && now > new Date(campaign.submissionEndDate)
AfterWindow(c, t) ==
    campaigns[c].submissionEndDate # NullInt /\ t > campaigns[c].submissionEndDate

\* validationResult and the role check.
SubmitEntryVerdict(u, b) ==
    IF ~SubmitValid(b) THEN <<400, "validation">>
    ELSE IF Role(u) # "STUDENT" THEN <<403, "only students">>
    ELSE Pass

\* The checks on the campaign returned by Campaign.findByPk, at time t.
SubmitWindowVerdict(c, t) ==
    IF c \notin CampaignIds THEN <<404, "campaign not found">>
    ELSE IF BeforeWindow(c, t) THEN <<400, "submission not started">>
    ELSE IF AfterWindow(c, t) THEN <<400, "submission ended">>
    ELSE Pass

\* submitProject up to its first await.
SubmitStart(h, u, c, b) ==
    /\ req[h].pc = "idle"
    /\ LET r == Request("submit", u, c, NullInt, b)
           v == SubmitEntryVerdict(u, b) IN
         IF v = Pass THEN Proceed(h, r, "submitFindCampaign") ELSE Reply(h, r, v, NullInt)
    /\ UNCHANGED <<now, campaigns, participations, submissions, nextPartId, nextSubId>>
    /\ UNCHANGED <<likeVars, shareVars>>

\* `await Campaign.findByPk(campaignId)`, `now = new Date()` and the window checks.
SubmitFindCampaign(h) ==
    /\ req[h].pc = "submitFindCampaign"
    /\ LET r == [req[h] EXCEPT !.at = now]
           v == SubmitWindowVerdict(r.campaign, now) IN
         IF v = Pass THEN Proceed(h, r, "submitFindParticipation")
                     ELSE Reply(h, r, v, NullInt)
    /\ UNCHANGED <<now, campaigns, participations, submissions, nextPartId, nextSubId>>
    /\ UNCHANGED <<likeVars, shareVars>>

\* `await CampaignParticipation.findOne({... status: 'approved'})`
SubmitFindParticipation(h) ==
    /\ req[h].pc = "submitFindParticipation"
    /\ IF ApprovedParticipationsOf(req[h].campaign, req[h].caller) = {}
         THEN Reply(h, req[h], <<403, "approved participation required">>, NullInt)
         ELSE \E p \in ApprovedParticipationsOf(req[h].campaign, req[h].caller) :
                Proceed(h, [req[h] EXCEPT !.part = p.id], "submitFindExisting")
    /\ UNCHANGED <<now, campaigns, participations, submissions, nextPartId, nextSubId>>
    /\ UNCHANGED <<likeVars, shareVars>>

\* `await CampaignSubmission.findOne({where: {participationId}})`
SubmitFindExisting(h) ==
    /\ req[h].pc = "submitFindExisting"
    /\ IF SubmissionsOf(req[h].part) # {}
         THEN Reply(h, req[h], <<400, "already submitted">>, NullInt)
         ELSE Proceed(h, req[h], "submitCreate")
    /\ UNCHANGED <<now, campaigns, participations, submissions, nextPartId, nextSubId>>
    /\ UNCHANGED <<likeVars, shareVars>>

\* `await CampaignSubmission.create(...)`: the INSERT fails on
\* UNIQUE(participation_id) (the error carries no statusCode, so the error
\* middleware answers 500), or inserts the row and fires the trigger.
SubmitCreate(h) ==
    /\ req[h].pc = "submitCreate"
    /\ nextSubId' = nextSubId + 1
    /\ IF UniqueSubmissionViolated(req[h].part)
         THEN /\ Reply(h, req[h], <<500, "internal server error">>, NullInt)
              /\ UNCHANGED <<submissions, participations>>
         ELSE /\ submissions' = submissions \cup
                   {[id |-> nextSubId, campaignId |-> req[h].campaign,
                     userId |-> req[h].caller, participationId |-> req[h].part,
                     project |-> req[h].body,
                     status |-> "submitted", submissionDate |-> now,
                     score |-> NullInt, grade |-> NullStr, feedback |-> NullStr,
                     position |-> NullInt, prizeAmount |-> NullInt,
                     gradedBy |-> NullStr, prizeDistributed |-> FALSE]}
              /\ participations' = TriggerSetStatus(req[h].part, "submitted")
              /\ Reply(h, req[h], <<201, "project submitted">>, nextSubId)
    /\ UNCHANGED <<now, campaigns, nextPartId>>
    /\ UNCHANGED <<likeVars, shareVars>>

\* ----------------------------------------------------- lifecycle: gradeSubmission
\* validationResult, the submission returned by findByPk(id, {include:
\* campaign}) and the creator-or-admin check.
GradeEntryVerdict(u, sid, b) ==
    LET found == {s \in submissions : s.id = sid} IN
      IF ~GradeValid(b) THEN <<400, "validation">>
      ELSE IF found = {} THEN <<404, "submission not found">>
      ELSE IF \E s \in found : NotCreatorNorAdmin(s.campaignId, u)
        THEN <<403, "access denied">>
      ELSE Pass

\* The status as given, without the default.
GradeStatusAsGiven(b) == b.status

\* status: status || SubmissionStatus.GRADED
GradeStatus(b) == IF b.status = NullStr THEN "graded" ELSE b.status

\* gradeSubmission up to and including `await CampaignSubmission.findByPk`.
GradeFind(h, u, sid, b) ==
    /\ req[h].pc = "idle"
    /\ LET r == Request("grade", u, NullInt, sid, b)
           v == GradeEntryVerdict(u, sid, b) IN
         IF v = Pass THEN Proceed(h, r, "gradeUpdate") ELSE Reply(h, r, v, NullInt)
    /\ UNCHANGED <<now, campaigns, participations, submissions, nextPartId, nextSubId>>
    /\ UNCHANGED <<likeVars, shareVars>>

\* An UPDATE that writes every key of the call, the undefined ones as NULL.
GradeWriteAllKeys(s, b, u) ==
    [s EXCEPT !.score = b.score,
              !.grade = b.grade,
              !.feedback = b.feedback,
              !.status = GradeStatus(b),
              !.position = b.position,
              !.prizeAmount = b.prizeAmount,
              !.gradedBy = u]

\* An UPDATE that moves the status forward only: submitted, then graded,
\* then one of winner, runner_up, not_selected.
GradeWriteForwardOnly(s, b, u) ==
    LET rank(st) == IF st = "submitted" THEN 0 ELSE IF st = "graded" THEN 1 ELSE 2 IN
    [s EXCEPT !.score = b.score,
              !.grade = b.grade,
              !.feedback = IF b.feedback = NullStr THEN @ ELSE b.feedback,
              !.status = IF rank(GradeStatus(b)) < rank(@) THEN @ ELSE GradeStatus(b),
              !.position = IF b.position = NullInt THEN @ ELSE b.position,
              !.prizeAmount = IF b.prizeAmount = NullInt THEN @ ELSE b.prizeAmount,
              !.gradedBy = u]

\* An UPDATE that also marks the prize distributed when a prize is given.
GradeWriteDistributes(s, b, u) ==
    [s EXCEPT !.score = b.score,
              !.grade = b.grade,
              !.feedback = IF b.feedback = NullStr THEN @ ELSE b.feedback,
              !.status = GradeStatus(b),
              !.position = IF b.position = NullInt THEN @ ELSE b.position,
              !.prizeAmount = IF b.prizeAmount = NullInt THEN @ ELSE b.prizeAmount,
              !.gradedBy = u,
              !.prizeDistributed = (b.prizeAmount # NullInt)]

\* The row s after `submission.update({score, grade, feedback, status,
\* position, prizeAmount, gradedBy, gradedAt})`: the UPDATE sets the keys
\* whose value is defined and leaves the other columns as stored.
GradeWrite(s, b, u) ==
    [s EXCEPT !.score = b.score,
              !.grade = b.grade,
              !.feedback = IF b.feedback = NullStr THEN @ ELSE b.feedback,
              !.status = GradeStatus(b),
              !.position = IF b.position = NullInt THEN @ ELSE b.position,
              !.prizeAmount = IF b.prizeAmount = NullInt THEN @ ELSE b.prizeAmount,
              !.gradedBy = u]

\* `await submission.update(...)`: one UPDATE by primary key; the trigger
\* mirrors the new status.
GradeUpdate(h) ==
    /\ req[h].pc = "gradeUpdate"
    /\ LET b == req[h].body IN
         /\ submissions' =
              {IF s.id = req[h].target THEN GradeWrite(s, b, req[h].caller) ELSE s :
                 s \in submissions}
         /\ participations' =
              IF \E s \in submissions : s.id = req[h].target
                THEN LET s == CHOOSE x \in submissions : x.id = req[h].target
                     IN TriggerSetStatus(s.participationId, GradeStatus(b))
                ELSE participations
    /\ Reply(h, req[h], <<200, "submission graded">>, NullInt)
    /\ UNCHANGED <<now, campaigns, nextPartId, nextSubId>>
    /\ UNCHANGED <<likeVars, shareVars>>

\* ------------------------------------------------------------ lifecycle: clock
\* Time passes between any two steps.
Tick ==
    /\ now < MaxNow
    /\ now' = now + 1
    /\ UNCHANGED <<campaigns, participations, submissions, nextPartId, nextSubId, req, last>>
    /\ UNCHANGED <<likeVars, shareVars>>

\* ------------------------------------------------------- lifecycle: initial state
\* The rows a campaign can hold: status as written by the admin routes (the
\* lower-case values of updateCampaign's validator, 'ACTIVE' of
\* createCampaign), the fundingTrail flag, and the optional window dates
\* (createCampaign stores the two dates as given, in either order).
CampaignRows ==
    [status : {"active", "ACTIVE", "draft"},
     fundingTrail : BOOLEAN,
     createdBy : {"owner"},
     submissionStartDate : {NullInt, 1, MaxNow},
     submissionEndDate : {NullInt, 1}]

\* No lifecycle row and no lifecycle request.
LifeAtRest ==
    /\ now = 0
    /\ participations = {}
    /\ submissions = {}
    /\ nextPartId = 1
    /\ nextSubId = 1
    /\ req = [h \in Handlers |-> IdleReq]
    /\ last = NoLast

\* No like row, no share row, and no like or share request.
LikeAtRest ==
    /\ likesCount = [e \in Entities |-> 0]
    /\ likes = {}
    /\ nextLikeId = 1
    /\ lreq = [r \in LikeReqs |-> IdleLike]
    /\ sharesCount = 0
    /\ shares = {}
    /\ nextShareId = 1
    /\ sreq = [r \in ShareReqs |-> IdleShare]

InitLife ==
    /\ LikeAtRest
    /\ LifeAtRest
    /\ campaigns \in [CampaignIds -> CampaignRows]

\* An active campaign open to participation, without a submission window.
OpenCampaign ==
    [status |-> "active", fundingTrail |-> TRUE, createdBy |-> "owner",
     submissionStartDate |-> NullInt, submissionEndDate |-> NullInt]

InitOpen ==
    /\ LikeAtRest
    /\ LifeAtRest
    /\ campaigns = [c \in CampaignIds |-> OpenCampaign]

\* Callers and bodies of the lifecycle as a whole: the verified student
\* applies and submits, the campaign's creator reviews and grades, every body
\* passes its validator.
LifeReviewBodies == {b \in ReviewBodies : ReviewValid(b) /\ b.reviewNotes = NullStr}
LifeGradeBodies == {b \in GradeBodies : GradeValid(b)}
LifeApplyBody == [motivation |-> 10, experience |-> 10]
LifeSubmitBody == [projectTitle |-> 3, projectDescription |-> 10, projectScreenshots |-> 1]

NextLife ==
    \/ \E h \in Handlers : ApplyCheckStudent(h, "stu", 1, LifeApplyBody)
    \/ \E h \in Handlers : ApplyFindCampaign(h)
    \/ \E h \in Handlers : ApplyFindExisting(h)
    \/ \E h \in Handlers : ApplyCreate(h)
    \/ \E h \in Handlers, p \in participations, b \in LifeReviewBodies :
         ReviewFind(h, "owner", p.id, b)
    \/ \E h \in Handlers : ReviewUpdate(h)
    \/ \E h \in Handlers : SubmitStart(h, "stu", 1, LifeSubmitBody)
    \/ \E h \in Handlers : SubmitFindCampaign(h)
    \/ \E h \in Handlers : SubmitFindParticipation(h)
    \/ \E h \in Handlers : SubmitFindExisting(h)
    \/ \E h \in Handlers : SubmitCreate(h)
    \/ \E h \in Handlers, s \in submissions, b \in LifeGradeBodies :
         GradeFind(h, "owner", s.id, b)
    \/ \E h \in Handlers : GradeUpdate(h)

SpecLife == InitOpen /\ [][NextLife]_vars

\* Apply alone: every kind of caller, campaign id and body, over every
\* campaign row.
ApplyCallers == {"stu", "stu2", "stu3", "guest"}

NextApply ==
    \/ \E h \in Handlers, u \in ApplyCallers, c \in CampaignIds \cup {MissingCampaign}, b \in ApplyBodies :
         ApplyCheckStudent(h, u, c, b)
    \/ \E h \in Handlers : ApplyFindCampaign(h)
    \/ \E h \in Handlers : ApplyFindExisting(h)
    \/ \E h \in Handlers : ApplyCreate(h)

SpecApply == InitLife /\ [][NextApply]_vars

\* Apply with a registration window: updateCampaignDates stores the two
\* dates, each optional, the start before the end when both are given.  The
\* clock moves between requests.
RegistrationRows ==
    {[status |-> "active", fundingTrail |-> TRUE, createdBy |-> "owner",
      submissionStartDate |-> NullInt, submissionEndDate |-> NullInt,
      registrationStartDate |-> a, registrationEndDate |-> b] :
        <<a, b>> \in {x \in {NullInt, 1} \X {NullInt, 1, MaxNow} :
                        x[1] = NullInt \/ x[2] = NullInt \/ x[1] < x[2]}}

InitRegistration ==
    /\ LikeAtRest
    /\ LifeAtRest
    /\ campaigns \in [CampaignIds -> RegistrationRows]

RegistrationTick == (\A h \in Handlers : req[h].pc = "idle") /\ Tick

NextRegistration ==
    \/ \E h \in Handlers, u \in {"stu", "stu3"} : ApplyCheckStudent(h, u, 1, LifeApplyBody)
    \/ \E h \in Handlers : ApplyFindCampaign(h)
    \/ \E h \in Handlers : ApplyFindExisting(h)
    \/ \E h \in Handlers : ApplyCreate(h)
    \/ RegistrationTick

SpecRegistration == InitRegistration /\ [][NextRegistration]_vars

\* The row stored by createCampaign for the administrator `admin`: status is
\* CampaignStatus.ACTIVE, fundingTrail as given (true when omitted), the
\* submission dates as given.
CreatedCampaign(ft, ss, se) ==
    [status |-> "ACTIVE", fundingTrail |-> ft, createdBy |-> "admin",
     submissionStartDate |-> ss, submissionEndDate |-> se]

\* Apply to a campaign that createCampaign has just stored, with no campaign
\* update in between.
InitCreated ==
    /\ LikeAtRest
    /\ LifeAtRest
    /\ campaigns \in [CampaignIds ->
                        {CreatedCampaign(ft, ss, se) :
                           ft \in BOOLEAN, ss \in {NullInt, 1}, se \in {NullInt, MaxNow}}]

\* updateCampaign by the administrator with a status in the body:
\* Campaign.findByPk, `campaign.status = status`, campaign.save().  The
\* statuses are those the route's validator lists.
UpdateCampaign(c, st) ==
    /\ c \in CampaignIds
    /\ campaigns[c].status # st
    /\ campaigns' = [campaigns EXCEPT ![c].status = st]
    /\ UNCHANGED <<now, participations, submissions, nextPartId, nextSubId, req, last>>
    /\ UNCHANGED <<likeVars, shareVars>>

NextCreated ==
    \/ \E h \in Handlers, u \in ApplyCallers, c \in CampaignIds \cup {MissingCampaign}, b \in ApplyBodies :
         ApplyCheckStudent(h, u, c, b)
    \/ \E h \in Handlers : ApplyFindCampaign(h)
    \/ \E h \in Handlers : ApplyFindExisting(h)
    \/ \E h \in Handlers : ApplyCreate(h)
    \/ \E c \in CampaignIds, st \in {"active", "draft"} : UpdateCampaign(c, st)

SpecCreated == InitCreated /\ [][NextCreated]_vars

\* Submit alone, with the clock running over every setting of the window.
\* The student's participation has been approved by the campaign's creator,
\* or the student has not applied.
ApprovedParticipation ==
    [id |-> 1, campaignId |-> 1, userId |-> "stu", status |-> "approved",
     submissionStatus |-> "not_submitted", reviewedBy |-> "owner", reviewNotes |-> NullStr]

WindowRows == {r \in CampaignRows : r.status = "active" /\ r.fundingTrail}

InitWindow ==
    /\ LikeAtRest
    /\ now = 0
    /\ campaigns \in [CampaignIds -> WindowRows]
    /\ \/ participations = {} /\ nextPartId = 1
       \/ participations = {ApprovedParticipation} /\ nextPartId = 2
    /\ submissions = {}
    /\ nextSubId = 1
    /\ req = [h \in Handlers |-> IdleReq]
    /\ last = NoLast

SubmitCallers == {"stu", "guest"}

NextWindow ==
    \/ \E h \in Handlers, u \in SubmitCallers, c \in CampaignIds \cup {MissingCampaign}, b \in SubmitBodies :
         SubmitStart(h, u, c, b)
    \/ \E h \in Handlers : SubmitFindCampaign(h)
    \/ \E h \in Handlers : SubmitFindParticipation(h)
    \/ \E h \in Handlers : SubmitFindExisting(h)
    \/ \E h \in Handlers : SubmitCreate(h)
    \/ Tick

SpecWindow == InitWindow /\ [][NextWindow]_vars

\* Review and Grade alone: the creator, an administrator and a student as
\* callers, an existing and a missing id, every body.  The student's
\* participation is pending, or approved with its project submitted.
PendingParticipation == NewParticipation(1, 1, "stu")

SubmittedParticipation == [ApprovedParticipation EXCEPT !.submissionStatus = "submitted"]

SubmittedSubmission ==
    [id |-> 1, campaignId |-> 1, userId |-> "stu", participationId |-> 1,
     project |-> LifeSubmitBody,
     status |-> "submitted", submissionDate |-> 0,
     score |-> NullInt, grade |-> NullStr, feedback |-> NullStr,
     position |-> NullInt, prizeAmount |-> NullInt,
     gradedBy |-> NullStr, prizeDistributed |-> FALSE]

InitJudge ==
    /\ LikeAtRest
    /\ now = 0
    /\ campaigns = [c \in CampaignIds |-> OpenCampaign]
    /\ \/ participations = {PendingParticipation} /\ submissions = {} /\ nextSubId = 1
       \/ /\ participations = {SubmittedParticipation}
          /\ submissions = {SubmittedSubmission}
          /\ nextSubId = 2
    /\ nextPartId = 2
    /\ req = [h \in Handlers |-> IdleReq]
    /\ last = NoLast

JudgeCallers == {"owner", "admin", "stu"}
JudgeTargets == {1, 2}

\* Review alone, over every body.
NextReview ==
    \/ \E h \in Handlers, u \in JudgeCallers, pid \in JudgeTargets, b \in ReviewBodies :
         ReviewFind(h, u, pid, b)
    \/ \E h \in Handlers : ReviewUpdate(h)

SpecReview == InitJudge /\ [][NextReview]_vars

\* Grade alone, over every body.
NextGrade ==
    \/ \E h \in Handlers, u \in JudgeCallers, sid \in JudgeTargets, b \in GradeBodies :
         GradeFind(h, u, sid, b)
    \/ \E h \in Handlers : GradeUpdate(h)

SpecGrade == InitJudge /\ [][NextGrade]_vars

\* Two Grade requests in a race: a request is taken up only while the
\* submission is ungraded, so that a second grader has read the submission
\* before the first one writes it.
Ungraded == \A s \in submissions : s.gradedBy = NullStr

RaceGradeFind(h, u, sid, b) == Ungraded /\ GradeFind(h, u, sid, b)

NextGradeRace ==
    \/ \E h \in Handlers, u \in JudgeCallers, sid \in JudgeTargets, b \in GradeBodies :
         RaceGradeFind(h, u, sid, b)
    \/ \E h \in Handlers : GradeUpdate(h)

SpecGradeRace == InitJudge /\ [][NextGradeRace]_vars

\* The grade of the end-to-end scenario.
WinnerBody ==
    [score |-> 92, grade |-> "A", feedback |-> "good", status |-> "winner",
     position |-> 1, prizeAmount |-> 500]

\* Grade after Grade: valid bodies that supply each status a grader may set.
RegradeBodies ==
    {WinnerBody,
     [score |-> 80, grade |-> "B", feedback |-> NullStr, status |-> "graded",
      position |-> NullInt, prizeAmount |-> NullInt],
     [score |-> 85, grade |-> "B+", feedback |-> NullStr, status |-> "runner_up",
      position |-> 2, prizeAmount |-> NullInt],
     [score |-> 50, grade |-> "D", feedback |-> "weak", status |-> "not_selected",
      position |-> NullInt, prizeAmount |-> NullInt]}

NextRegrade ==
    \/ \E h \in Handlers, u \in JudgeCallers, sid \in JudgeTargets, b \in RegradeBodies :
         GradeFind(h, u, sid, b)
    \/ \E h \in Handlers : GradeUpdate(h)

SpecRegrade == InitJudge /\ [][NextRegrade]_vars

\* Review and Grade together, each with the bodies of the end-to-end
\* scenario, over every caller and target.
ApproveBody == [status |-> "approved", reviewNotes |-> NullStr]

NextJudge ==
    \/ \E h \in Handlers, u \in JudgeCallers, pid \in JudgeTargets :
         ReviewFind(h, u, pid, ApproveBody)
    \/ \E h \in Handlers : ReviewUpdate(h)
    \/ \E h \in Handlers, u \in JudgeCallers, sid \in JudgeTargets :
         GradeFind(h, u, sid, WinnerBody)
    \/ \E h \in Handlers : GradeUpdate(h)

SpecJudge == InitJudge /\ [][NextJudge]_vars

\* The end-to-end scenario: one request at a time, each sent when the one
\* before it has been answered: the student applies, the creator approves,
\* the student submits one screenshot, the creator grades the submission
\* winner; the clock runs over every setting of the window.
AllIdle == \A h \in Handlers : req[h].pc = "idle"

ScenarioApply(h) ==
    /\ AllIdle
    /\ participations = {}
    /\ ApplyCheckStudent(h, "stu", 1, LifeApplyBody)

ScenarioReview(h) ==
    /\ AllIdle
    /\ \E p \in participations : p.status = "pending" /\ ReviewFind(h, "owner", p.id, ApproveBody)

ScenarioSubmit(h) ==
    /\ AllIdle
    /\ \E p \in participations : p.status = "approved"
    /\ submissions = {}
    /\ SubmitStart(h, "stu", 1, LifeSubmitBody)

ScenarioGrade(h) ==
    /\ AllIdle
    /\ \E x \in submissions : x.status = "submitted" /\ GradeFind(h, "owner", x.id, WinnerBody)

InitScenario ==
    /\ LikeAtRest
    /\ LifeAtRest
    /\ campaigns \in [CampaignIds -> WindowRows]

NextScenario ==
    \/ \E h \in Handlers : ScenarioApply(h)
    \/ \E h \in Handlers : ApplyFindCampaign(h)
    \/ \E h \in Handlers : ApplyFindExisting(h)
    \/ \E h \in Handlers : ApplyCreate(h)
    \/ \E h \in Handlers : ScenarioReview(h)
    \/ \E h \in Handlers : ReviewUpdate(h)
    \/ \E h \in Handlers : ScenarioSubmit(h)
    \/ \E h \in Handlers : SubmitFindCampaign(h)
    \/ \E h \in Handlers : SubmitFindParticipation(h)
    \/ \E h \in Handlers : SubmitFindExisting(h)
    \/ \E h \in Handlers : SubmitCreate(h)
    \/ \E h \in Handlers : ScenarioGrade(h)
    \/ \E h \in Handlers : GradeUpdate(h)
    \/ Tick

SpecScenario == InitScenario /\ [][NextScenario]_vars

\* ------------------------------------------------------ like: specification
NextLike ==
    \/ \E r \in LikeReqs, e \in Entities \cup {MissingEntity},
          u \in LikeUsers \cup {NoUser} : ToggleFindEntity(r, e, u)
    \/ \E r \in LikeReqs : ToggleFindLike(r)
    \/ \E r \in LikeReqs : ToggleDestroy(r)
    \/ \E r \in LikeReqs : ToggleDecrement(r)
    \/ \E r \in LikeReqs : ToggleCreate(r)
    \/ \E r \in LikeReqs : ToggleIncrement(r)
    \/ \E r \in LikeReqs : ToggleRespond(r)

SpecLike == InitOpen /\ [][NextLike]_vars

\* toggleLike calls made one after the other: a call starts when every
\* earlier call has answered.
LikeQuiet == \A r \in LikeReqs : lreq[r].pc \in {"idle", "done"}

SeqToggleFindEntity(r, e, u) == LikeQuiet /\ ToggleFindEntity(r, e, u)

NextLikeSeq ==
    \/ \E r \in LikeReqs, e \in Entities \cup {MissingEntity},
          u \in LikeUsers \cup {NoUser} : SeqToggleFindEntity(r, e, u)
    \/ \E r \in LikeReqs : ToggleFindLike(r)
    \/ \E r \in LikeReqs : ToggleDestroy(r)
    \/ \E r \in LikeReqs : ToggleDecrement(r)
    \/ \E r \in LikeReqs : ToggleCreate(r)
    \/ \E r \in LikeReqs : ToggleIncrement(r)
    \/ \E r \in LikeReqs : ToggleRespond(r)

SpecLikeSeq == InitOpen /\ [][NextLikeSeq]_vars

\* toggleLike and getLikeStatus calls made one after the other.  The step
\* StatusFindLike is left out: no request reaches it (StatusUserId).
AllAnswered == \A r \in LikeReqs : lreq[r].pc \in {"idle", "done", "statusDone"}

NextStatus ==
    \/ \E r \in LikeReqs, e \in Entities \cup {MissingEntity},
          u \in LikeUsers \cup {NoUser} : AllAnswered /\ ToggleFindEntity(r, e, u)
    \/ \E r \in LikeReqs : ToggleFindLike(r)
    \/ \E r \in LikeReqs : ToggleDestroy(r)
    \/ \E r \in LikeReqs : ToggleDecrement(r)
    \/ \E r \in LikeReqs : ToggleCreate(r)
    \/ \E r \in LikeReqs : ToggleIncrement(r)
    \/ \E r \in LikeReqs : ToggleRespond(r)
    \/ \E r \in LikeReqs, e \in Entities \cup {MissingEntity},
          u \in LikeUsers \cup {NoUser} : AllAnswered /\ StatusFindEntity(r, e, u)

SpecStatus == InitOpen /\ [][NextStatus]_vars

\* ----------------------------------------------------- share: specification
\* trackShare calls in any interleaving.  The step ShareInsert is left out:
\* no request reaches it (ShareUserId).
NextShare ==
    \/ \E r \in ShareReqs, e \in {SharedProject, MissingEntity},
          u \in LikeUsers \cup {NoUser}, p \in Platforms : ShareFindEntity(r, e, u, p)
    \/ \E r \in ShareReqs : ShareIncrement(r)
    \/ \E r \in ShareReqs : ShareRespond(r)

SpecShare == InitOpen /\ [][NextShare]_vars

\* ------------------------------------------------------------ like: claims
NoToggleInFlight == \A r \in LikeReqs : lreq[r].pc \in {"idle", "done"}

\* C1: whenever no ToggleLike request is in flight, likesCount(e) equals the
\* number of Like rows stored for e, for every entity e.
C1_LikesCountMirrorsRows ==
    NoToggleInFlight => \A e \in Entities : likesCount[e] = LikeRowCount(e)

\* Exactly two ToggleLike calls were ever made, both by the same user on the
\* same entity, starting from the state in which the user has not liked it,
\* and both have answered.
TwoTogglesBySameUserDone ==
    /\ lreq[1].pc = "done" /\ lreq[2].pc = "done"
    /\ \A r \in LikeReqs : r > 2 => lreq[r].pc = "idle"
    /\ lreq[1].entity \in Entities /\ lreq[2].entity = lreq[1].entity
    /\ lreq[1].user \in LikeUsers /\ lreq[2].user = lreq[1].user

\* C2: of two concurrent ToggleLike(e, u) calls by the same user from the
\* not-liked state, exactly one reports liked:true with the count raised by
\* one (0 -> 1), the other reports the resulting consistent state or is
\* rejected as a duplicate, and the final likesCount equals the row count.
C2_SameUserRaceConsistent ==
    TwoTogglesBySameUserDone =>
        /\ likesCount[lreq[1].entity] = LikeRowCount(lreq[1].entity)
        /\ \E a \in {1, 2} :
             LET b == 3 - a IN
               /\ lreq[a].resp = [status |-> 200, liked |-> TRUE, likesCount |-> 1]
               /\ \/ lreq[b].resp.status = 500
                  \/ /\ lreq[b].resp.status = 200
                     /\ ~lreq[b].resp.liked
                     /\ lreq[b].resp.likesCount = LikeRowCount(lreq[1].entity)

\* C3: in every reachable state there is at most one Like row for every
\* (entity, user) pair, whatever the interleaving of the toggles.
C3_AtMostOneLikePerPair ==
    \A e \in Entities, u \in LikeUsers : Cardinality(LikeRowsOf(e, u)) <= 1

\* A concurrent second insert for a pair was refused by the unique index
\* while the first one's row is stored.
C3_Witness ==
    \E r \in LikeReqs :
        /\ lreq[r].pc = "done" /\ lreq[r].resp.status = 500
        /\ LikeRowsOf(lreq[r].entity, lreq[r].user) # {}

\* ------------------------------------------------------ lifecycle: properties
\* C4: in every reachable state there is at most one Participation row per
\* (campaign, user) pair, also when two Apply calls for the pair interleave.
C4_AtMostOneParticipation ==
    \A c \in CampaignIds, u \in LifeUsers : Cardinality(ParticipationsOf(c, u)) <= 1

\* The step of Submit that looks for an earlier Submission, taken by handler h.
SubmitChecksExisting(h) == req[h].pc = "submitFindExisting" /\ req'[h] # req[h]

\* C5: in every reachable state there is at most one Submission row per
\* Participation, and a Submit whose participation already has a Submission
\* when it looks for one answers Conflict (400 'already submitted') and
\* leaves the table as it is.
C5_AtMostOneSubmission ==
    /\ [](\A p \in participations : Cardinality(SubmissionsOf(p.id)) <= 1)
    /\ [][\A h \in Handlers :
            (SubmitChecksExisting(h) /\ \E s \in submissions : s.participationId = req[h].part)
              => /\ last'.status = 400
                 /\ last'.message = "already submitted"
                 /\ last'.created = NullInt
                 /\ submissions' = submissions]_vars

C5_Witness ==
    /\ last.op = "submit"
    /\ last.message = "already submitted"
    /\ Cardinality(SubmissionsOf(last.part)) = 1

\* C6: a Submit that reached its approved participation inside the window ends
\* in success or in Conflict, whatever another Submit for the participation
\* does at the same time.
C6_SubmitEndsInSuccessOrConflict ==
    (last.op = "submit" /\ last.part # NullInt) =>
        \/ last.status = 201
        \/ last.status = 400 /\ last.message = "already submitted"

\* The submissions of participation p, read off the table.
SubmissionRowsFor(p) == {s \in submissions : s.participationId = p.id}

\* C7: for every Participation p, submissionStatus is not_submitted when p
\* has no Submission and the status of p's Submission otherwise, in every
\* state a request can observe.
C7_SubmissionStatusMirrored ==
    \A p \in participations :
        IF SubmissionRowsFor(p) = {}
          THEN p.submissionStatus = "not_submitted"
          ELSE \A s \in SubmissionRowsFor(p) : p.submissionStatus = s.status

C7_Witness ==
    /\ last.op = "grade"
    /\ last.status = 200
    /\ \E p \in participations :
         /\ p.submissionStatus = "winner"
         /\ \E s \in SubmissionRowsFor(p) : s.status = "winner"
    /\ \E p \in participations : p.submissionStatus = "not_submitted"

\* The step of Submit that looks for the caller's participation.
SubmitChecksParticipation(h) == req[h].pc = "submitFindParticipation" /\ req'[h] # req[h]

\* The approved participations of the caller of handler h, read off the table.
ApprovedRowsFor(h) ==
    {p \in participations : /\ p.campaignId = req[h].campaign
                            /\ p.userId = req[h].caller
                            /\ p.status = "approved"}

\* C8: a Submit goes on to create a Submission only for a participation of
\* the caller in the campaign whose status is approved; when the caller has
\* none (absent, pending or rejected) it answers Forbidden and creates nothing,
\* and a Submit that succeeded had found such a participation.
C8_SubmitNeedsApprovedParticipation ==
    /\ [][\A h \in Handlers : SubmitChecksParticipation(h) =>
            IF ApprovedRowsFor(h) = {}
              THEN /\ last'.op = "submit"
                   /\ last'.status = 403
                   /\ last'.created = NullInt
                   /\ req'[h] = IdleReq
                   /\ submissions' = submissions
              ELSE /\ req'[h].pc = "submitFindExisting"
                   /\ \E p \in ApprovedRowsFor(h) : req'[h].part = p.id]_vars
    /\ []((last.op = "submit" /\ last.status = 201) =>
            \E p \in participations, s \in submissions :
                /\ p.id = last.part /\ p.campaignId = last.campaign /\ p.userId = last.caller
                /\ s.id = last.created /\ s.participationId = p.id)

C8_Witness ==
    /\ last.op = "submit"
    /\ last.status = 403
    /\ last.message = "approved participation required"
    /\ \E p \in participations : p.userId = last.caller /\ p.status = "rejected"
    /\ submissions = {}

\* The last response is that of a Submit that read the clock against the
\* window of an existing campaign.
SubmitReachedWindow ==
    last.op = "submit" /\ last.at # NullInt /\ last.campaign \in CampaignIds

\* now < submissionStartDate with the start set, for the last response.
LastBeforeStart ==
    /\ campaigns[last.campaign].submissionStartDate # NullInt
    /\ last.at < campaigns[last.campaign].submissionStartDate

\* now > submissionEndDate with the end set, for the last response.
LastAfterEnd ==
    /\ campaigns[last.campaign].submissionEndDate # NullInt
    /\ last.at > campaigns[last.campaign].submissionEndDate

ValidApplyAnswered == last.op = "apply" /\ ParticipateValid(last.body)

\* The caller of the last response is a student whose profile is approved.
LastCallerEligible ==
    Role(last.caller) = "STUDENT" /\ StudentVerification(last.caller) = "APPROVED"

ApplyInserts(h) == req[h].pc = "applyCreate" /\ req'[h] # req[h]

\* C11: a successful Apply creates exactly one Participation, for the
\* campaign and the caller, with status pending and submissionStatus
\* not_submitted, and changes no other Participation, no Submission and no
\* Campaign; an Apply answers success only by that step.
C11_ApplyCreatesOnePending ==
    [][/\ \A h \in Handlers : ApplyInserts(h) =>
             /\ last'.op = "apply" /\ last'.status = 201
             /\ \E p \in participations' \ participations :
                  /\ participations' = participations \cup {p}
                  /\ p.id = last'.created
                  /\ p.campaignId = req[h].campaign
                  /\ p.userId = req[h].caller
                  /\ p.status = "pending"
                  /\ p.submissionStatus = "not_submitted"
             /\ submissions' = submissions
             /\ campaigns' = campaigns
       /\ (last' # last /\ last'.op = "apply" /\ last'.status = 201)
             => \E h \in Handlers : ApplyInserts(h)]_vars

C11_Witness ==
    /\ last.op = "apply"
    /\ last.status = 201
    /\ \E p \in participations : p.id = last.created /\ p.status = "pending"
    /\ \E p \in participations : p.id # last.created /\ p.status = "approved"
    /\ submissions # {}

\* The step of Review that writes the participation, taken by handler h.
ReviewWrites(h) == req[h].pc = "reviewUpdate" /\ req'[h] # req[h]

\* C12: a Review by an authorized reviewer sets status to the decision and
\* reviewedBy to the reviewer whatever the prior status; the same decision by
\* the same reviewer with the same notes applied again leaves status,
\* reviewedBy and reviewNotes as they are; a re-review with the opposite
\* decision overwrites status, reviewedBy and reviewNotes with those of the
\* request (no notes when the request carries none).
C12_ReviewSetsDecision ==
    [][\A h \in Handlers : ReviewWrites(h) =>
         \A p \in participations : p.id = req[h].target =>
            \E q \in participations' :
               /\ q.id = p.id
               /\ q.status = req[h].body.status
               /\ q.reviewedBy = req[h].caller
               /\ (/\ p.status = req[h].body.status
                   /\ p.reviewedBy = req[h].caller
                   /\ req[h].body.reviewNotes \in {NullStr, p.reviewNotes}) => q = p
               /\ (p.status \in {"approved", "rejected"} /\ p.status # req[h].body.status)
                     => q.reviewNotes = req[h].body.reviewNotes]_vars

\* A Review or a Grade is answered in this step.
JudgeAnswered == last' # last /\ last'.op \in {"review", "grade"}

\* The campaigns owning the row the answered request names: of the
\* participation for a Review, of the submission for a Grade.
JudgedCampaigns ==
    IF last'.op = "review"
      THEN {p.campaignId : p \in {x \in participations : x.id = last'.target}}
      ELSE {x.campaignId : x \in {y \in submissions : y.id = last'.target}}

\* The caller of the answered request created the owning campaign or is an
\* administrator.
JudgeAuthorized ==
    \/ Role(last'.caller) = "ADMIN"
    \/ \E c \in JudgedCampaigns : campaigns[c].createdBy = last'.caller

\* C13: a Review or Grade with a validated payload answers NotFound when the
\* participation or submission does not exist, Forbidden when it exists and
\* the caller is neither the creator of the owning campaign nor an
\* administrator, and neither of the two otherwise; a NotFound or Forbidden
\* answer leaves every participation, submission and campaign unchanged.
C13_JudgeAccess ==
    [][JudgeAnswered =>
         /\ (JudgedCampaigns = {}) <=> (last'.status = 404)
         /\ (JudgedCampaigns # {} /\ ~JudgeAuthorized) <=> (last'.status = 403)
         /\ last'.status \in {403, 404} =>
               /\ participations' = participations
               /\ submissions' = submissions
               /\ campaigns' = campaigns]_vars

C13_Witness ==
    /\ last.op = "grade"
    /\ last.status = 403
    /\ Role(last.caller) = "STUDENT"
    /\ \E x \in submissions : x.id = last.target /\ x.status = "winner" /\ x.gradedBy = "owner"

\* A Grade is answered in this step.
GradeAnswered == last' # last /\ last'.op = "grade"

\* The payload of the answered Grade breaks one of the field constraints.
GradePayloadRejected ==
    \/ last'.body.score < 0
    \/ last'.body.score > 100
    \/ last'.body.grade \notin {"A+", "A", "B+", "B", "C+", "C", "D", "F"}
    \/ /\ last'.body.status # NullStr
       /\ last'.body.status \notin {"graded", "winner", "runner_up", "not_selected"}
    \/ /\ last'.body.position # NullInt
       /\ (last'.body.position < 1 \/ last'.body.position > 3)

\* C14: a Grade whose score is outside 0..100, whose grade is not a letter
\* grade, whose status (if given) is not a grading status or whose position
\* (if given) is outside 1..3 answers ValidationError, whoever calls and
\* whatever the target, and leaves Submission and Participation unchanged;
\* no other Grade answers ValidationError.
C14_GradeValidation ==
    [][GradeAnswered =>
         /\ GradePayloadRejected <=> (last'.status = 400 /\ last'.message = "validation")
         /\ GradePayloadRejected =>
               /\ submissions' = submissions
               /\ participations' = participations]_vars

C14_Witness ==
    /\ last.op = "grade"
    /\ last.status = 400
    /\ last.body.score = 101
    /\ last.caller = "owner"
    /\ \E x \in submissions : x.id = last.target /\ x.score = 40 /\ x.status = "graded"

\* The step of Grade that writes the submission, taken by handler h.
GradeWrites(h) == req[h].pc = "gradeUpdate" /\ req'[h] # req[h]

\* C15: a successful Grade sets the Submission's score and grade to the
\* supplied values and gradedBy to the caller, sets its status to the
\* supplied status, or to graded when the status is omitted, and leaves
\* submissionStatus of the owning participation equal to that status.
C15_GradeSetsFields ==
    [][\A h \in Handlers : GradeWrites(h) =>
         /\ last'.op = "grade" /\ last'.status = 200
         /\ \E x \in submissions' :
              /\ x.id = req[h].target
              /\ x.score = req[h].body.score
              /\ x.grade = req[h].body.grade
              /\ x.gradedBy = req[h].caller
              /\ x.status = IF req[h].body.status = NullStr
                              THEN "graded" ELSE req[h].body.status
              /\ \E p \in participations' :
                   p.id = x.participationId /\ p.submissionStatus = x.status]_vars

C15_Witness ==
    /\ last.op = "grade"
    /\ last.status = 200
    /\ last.body.status = NullStr
    /\ \E x \in submissions :
         /\ x.id = last.target /\ x.status = "graded" /\ x.position = 1
         /\ \E p \in participations : p.id = x.participationId /\ p.submissionStatus = "graded"

\* The Submit answered last read the clock inside the window.
LastInsideWindow == SubmitReachedWindow /\ ~LastBeforeStart /\ ~LastAfterEnd

LikedPairs == {<<l.entity, l.user>> : l \in likes}

\* Calls r and r + 1 are the last two made, both have answered, and both were
\* made by the same user on the same entity.
LastTwoTogglesSamePair(r) ==
    /\ r + 1 \in LikeReqs
    /\ lreq[r].pc = "done" /\ lreq[r + 1].pc = "done"
    /\ \A q \in LikeReqs : q > r + 1 => lreq[q].pc = "idle"
    /\ lreq[r].entity \in Entities /\ lreq[r].user \in LikeUsers
    /\ lreq[r + 1].entity = lreq[r].entity
    /\ lreq[r + 1].user = lreq[r].user

\* The liked pairs before call 2, as call 1 left them.
PairsAfterFirst ==
    IF lreq[1].resp.status = 200 /\ lreq[1].resp.liked
      THEN {<<lreq[1].entity, lreq[1].user>>} ELSE {}

\* The value of likesCount(e) that mirrors a set of liked pairs.
CountOf(pairs, e) == Cardinality({x \in pairs : x[1] = e})

\* Two sequential toggles of a pair not liked before, made on the liked
\* pairs `before`, answer liked:true with the count raised by one and then
\* liked:false with the count as before, and leave the liked pairs and
\* every counter as before.
TogglesRestore(r, before) ==
    LET e == lreq[r].entity IN
      /\ lreq[r].resp = [status |-> 200, liked |-> TRUE, likesCount |-> CountOf(before, e) + 1]
      /\ lreq[r + 1].resp = [status |-> 200, liked |-> FALSE, likesCount |-> CountOf(before, e)]
      /\ LikedPairs = before
      /\ Cardinality(likes) = Cardinality(before)
      /\ \A x \in Entities : likesCount[x] = CountOf(before, x)

\* C17: two sequential ToggleLike(e, u) calls by one user who has not liked
\* e, with no other request in between, return liked:true then liked:false
\* and restore the Like rows and every likesCount to what they were before
\* the first call.
C17_TwoTogglesRestore ==
    /\ LastTwoTogglesSamePair(1) => TogglesRestore(1, {})
    /\ (LastTwoTogglesSamePair(2) /\ <<lreq[2].entity, lreq[2].user>> \notin PairsAfterFirst)
          => TogglesRestore(2, PairsAfterFirst)

C17_Witness ==
    /\ LastTwoTogglesSamePair(2)
    /\ PairsAfterFirst # {}
    /\ lreq[2].entity = lreq[1].entity
    /\ lreq[2].user # lreq[1].user
    /\ lreq[3].resp.status = 200
    /\ ~lreq[3].resp.liked
    /\ lreq[3].resp.likesCount = 1

\* Only one ToggleLike call has ever been made.
OneToggleOnly == \A r \in LikeReqs : r > 1 => lreq[r].pc = "idle"

\* C18: ToggleLike is one atomic unit: with a single ToggleLike call, served
\* or being served, every state another request can read has likesCount(e)
\* equal to the number of Like rows of e, so the row is never seen inserted or
\* deleted without the counter adjusted.
C18_ToggleAtomic ==
    OneToggleOnly => \A e \in Entities : likesCount[e] = LikeRowCount(e)

\* Call r enters toggleLike in this step.
ToggleEnters(r) == lreq[r].pc = "idle" /\ lreq'[r].pc \in {"done", "findLike"}

\* C19: ToggleLike answers Unauthenticated when the request has no caller
\* identity and NotFound when the entity does not exist, and not otherwise;
\* either answer leaves every Like row and every likesCount unchanged, and
\* no Like row is ever stored for a missing caller or a missing entity.
C19_ToggleEntryErrors ==
    /\ [][\A r \in LikeReqs : ToggleEnters(r) =>
            /\ (lreq'[r].user = NoUser) <=> (lreq'[r].resp.status = 401)
            /\ (lreq'[r].user # NoUser /\ lreq'[r].entity \notin Entities)
                  <=> (lreq'[r].resp.status = 404)
            /\ lreq'[r].resp.status \in {401, 404} =>
                  /\ lreq'[r].pc = "done"
                  /\ likes' = likes
                  /\ likesCount' = likesCount]_vars
    /\ [](\A l \in likes : l.user \in LikeUsers /\ l.entity \in Entities)

C19_Witness ==
    /\ likes # {}
    /\ \E r \in LikeReqs :
         /\ lreq[r].pc = "done"
         /\ lreq[r].resp.status = 401
         /\ lreq[r].entity \in Entities
         /\ likesCount[lreq[r].entity] = 1
    /\ \E r \in LikeReqs :
         lreq[r].pc = "done" /\ lreq[r].resp.status = 404 /\ lreq[r].user \in LikeUsers

\* Call r is a GetLikeStatus about an existing entity, it is the last call
\* made and it has answered.
LastCallIsStatus(r) ==
    /\ lreq[r].pc = "statusDone"
    /\ lreq[r].entity \in Entities
    /\ \A q \in LikeReqs : q > r => lreq[q].pc = "idle"

\* C20: GetLikeStatus changes no Like row and no counter; made by a user u
\* with a valid identity it returns liked = true exactly when a Like row for
\* (e, u) exists, with the current likesCount(e); with no caller it returns
\* liked = false.
C20_LikeStatusReports ==
    /\ [][(\E r \in LikeReqs : lreq[r].pc = "idle" /\ lreq'[r].pc = "statusDone")
            => (likes' = likes /\ likesCount' = likesCount)]_vars
    /\ [](\A r \in LikeReqs : LastCallIsStatus(r) =>
            /\ lreq[r].resp.status = 200
            /\ lreq[r].resp.likesCount = likesCount[lreq[r].entity]
            /\ lreq[r].user = NoUser => ~lreq[r].resp.liked
            /\ lreq[r].user \in LikeUsers =>
                 (lreq[r].resp.liked <=>
                    \E l \in likes : l.entity = lreq[r].entity /\ l.user = lreq[r].user))

\* ----------------------------------------------------------- share: claims
\* trackShare calls on the stored project that have executed the increment.
SharesCounted ==
    {r \in ShareReqs : sreq[r].entity = SharedProject
                       /\ sreq[r].pc \in {"insert", "reload", "done"}}

\* C21: every trackShare call on an existing project raises sharesCount by
\* exactly one and answers success, whatever happens to the share row; k
\* calls, in any interleaving, raise it by exactly k.
C21_ShareCountsEveryCall ==
    /\ sharesCount = Cardinality(SharesCounted)
    /\ \A r \in ShareReqs :
         (sreq[r].pc = "done" /\ sreq[r].entity = SharedProject)
           => sreq[r].resp.status = 200

\* Every slot has served a call on the stored project and answered success.
C21_Witness ==
    /\ \A r \in ShareReqs : /\ sreq[r].pc = "done"
                            /\ sreq[r].entity = SharedProject
                            /\ sreq[r].resp.status = 200
    /\ sharesCount = MaxShareReqs

\* Successful trackShare calls sent with the identity u and the platform p.
SharesAnswered(u, p) ==
    {r \in ShareReqs : /\ sreq[r].pc = "done"
                       /\ sreq[r].resp.status = 200
                       /\ sreq[r].user = u
                       /\ SharePlatform(sreq[r].platform) = p}

\* C22: each successful trackShare call by an authenticated user u with the
\* platform p has added one share row (project, u, p): k calls, k rows.
C22_ShareRowPerCall ==
    \A u \in LikeUsers, p \in {"direct", "twitter"} :
        Cardinality({s \in shares : s.entity = SharedProject /\ s.user = u
                                    /\ s.platform = p})
          = Cardinality(SharesAnswered(u, p))

\* ------------------------------------------------------ lifecycle: grade race
\* The row s after one Grade with the body b by the grader u, run alone.
GradedAlone(s, b, u) ==
    [s EXCEPT !.score = b.score,
              !.grade = b.grade,
              !.feedback = IF b.feedback = NullStr THEN s.feedback ELSE b.feedback,
              !.status = IF b.status = NullStr THEN "graded" ELSE b.status,
              !.position = IF b.position = NullInt THEN s.position ELSE b.position,
              !.prizeAmount = IF b.prizeAmount = NullInt THEN s.prizeAmount
                              ELSE b.prizeAmount,
              !.gradedBy = u]

\* The rows that Grade requests run one after the other, in any number and
\* order, by the creator or the administrator with valid bodies, leave of
\* the submitted row.
RECURSIVE SerialRowsFrom(_)
SerialRowsFrom(R) ==
    LET N == R \cup {GradedAlone(s, b, u) :
                       s \in R, b \in {x \in GradeBodies : GradeValid(x)},
                       u \in {"owner", "admin"}}
    IN IF N = R THEN R ELSE SerialRowsFrom(N)

SerialRows == SerialRowsFrom({SubmittedSubmission})

\* The handler h writes its grade after another grader, who read the same
\* ungraded submission, has written and answered.
SecondGraderWrites(h) ==
    /\ req[h].pc = "gradeUpdate"
    /\ req'[h].pc = "idle"
    /\ last.op = "grade" /\ last.status = 200 /\ last.target = req[h].target

SuppliedStatuses == {"graded", "winner", "runner_up", "not_selected"}

\* C24: Grade enforces no ordering on status: whatever the stored status, a
\* successful Grade that supplies s in {graded, winner, runner_up,
\* not_selected} leaves the submission with status s.
C24_GradeOverwritesStatus ==
    [][\A h \in Handlers :
         (/\ req[h].pc = "gradeUpdate"
          /\ req'[h].pc = "idle"
          /\ req[h].body.status \in SuppliedStatuses)
           => /\ last'.status = 200
              /\ \E s \in submissions' : s.id = req[h].target
              /\ \A s \in submissions' :
                   s.id = req[h].target => s.status = req[h].body.status]_vars

\* A submission graded winner (position 1) has since been set back to graded.
C24_Witness ==
    /\ last.op = "grade" /\ last.status = 200 /\ last.body.status = "graded"
    /\ \E s \in submissions : s.status = "graded" /\ s.position = 1 /\ s.score = 80

\* ------------------------------------------------------- lifecycle: frames
\* The columns of a submission that are written at creation only.
SubmissionCore(s) ==
    <<s.id, s.campaignId, s.userId, s.participationId, s.project, s.submissionDate>>

\* C25: under Apply, Review, Submit and Grade in any interleaving, a stored
\* submission keeps its payload, submissionDate, participationId and owner in
\* every step, and its prize-distributed flag is false in every state.
C25_SubmissionFrame ==
    /\ [](\A s \in submissions : s.prizeDistributed = FALSE)
    /\ [][\A s \in submissions :
            \E t \in submissions' : SubmissionCore(t) = SubmissionCore(s)]_vars

\* A submission has been graded, with a prize, after its participation was
\* reviewed.
C25_Witness ==
    /\ last.op = "grade" /\ last.status = 200
    /\ \E s \in submissions :
         /\ s.gradedBy # NullStr
         /\ s.prizeAmount # NullInt
         /\ s.project.projectTitle = 3
         /\ \E p \in participations : p.id = s.participationId /\ p.reviewedBy # NullStr

\* ------------------------------------------------ lifecycle: registration
\* The time t lies inside the registration window of the campaign row c.
RegistrationOpen(c, t) ==
    /\ (c.registrationStartDate # NullInt => t >= c.registrationStartDate)
    /\ (c.registrationEndDate # NullInt => t <= c.registrationEndDate)

C27_ReviewFrame ==
    [][\A h \in Handlers :
         (req[h].pc = "reviewUpdate" /\ req'[h].pc = "idle")
           => /\ submissions' = submissions
              /\ \A p \in participations :
                   \E q \in participations' :
                      /\ q.id = p.id
                      /\ q.campaignId = p.campaignId
                      /\ q.userId = p.userId
                      /\ q.submissionStatus = p.submissionStatus
                      /\ (p.id # req[h].target => q = p)]_vars

\* The creator has rejected a participation whose submission is stored.
C27_Witness ==
    /\ last.op = "review" /\ last.status = 200 /\ last.body.status = "rejected"
    /\ \E s \in submissions :
         \E p \in participations : /\ p.id = s.participationId
                                   /\ p.id = last.target
                                   /\ p.status = "rejected"
                                   /\ p.submissionStatus = s.status

\* ------------------------------------------------------ like: counter sign
\* C28: likesCount(e) is never negative, also when two toggles by the same
\* user both read the existing like row before either deletes it.
C28_LikesCountNonNegative == \A e \in Entities : likesCount[e] >= 0

\* ------------------------------------------------ lifecycle: created campaign
\* C29: a campaign stored by createCampaign with fundingTrail true is open at
\* once: while its status is the one createCampaign wrote, an Apply with a
\* valid payload by a verified student passes the campaign-status check and
\* creates a pending participation (or finds the caller's earlier one).
C29_CreatedCampaignOpen ==
    (/\ ValidApplyAnswered
     /\ LastCallerEligible
     /\ last.campaign \in CampaignIds
     /\ campaigns[last.campaign].fundingTrail
     /\ campaigns[last.campaign].status = "ACTIVE")
      => /\ last.message # "campaign not active"
         /\ \E p \in participations : /\ p.campaignId = last.campaign
                                      /\ p.userId = last.caller
                                      /\ p.status = "pending"

\* ------------------------------------------------ lifecycle: status values
GradedStatuses == {"graded", "winner", "runner_up", "not_selected"}

\* C30: a submission's status is always one of submitted, graded, winner,
\* runner_up, not_selected, and a participation's submissionStatus one of
\* these or not_submitted: nothing sets under_review; and a submission that
\* has been graded never returns to submitted.
C30_StatusValues ==
    /\ [](\A s \in submissions : s.status \in {"submitted"} \cup GradedStatuses)
    /\ [](\A p \in participations :
            p.submissionStatus \in {"not_submitted", "submitted"} \cup GradedStatuses)
    /\ [][\A s \in submissions, t \in submissions' :
            (t.id = s.id /\ s.status # "submitted") => t.status # "submitted"]_vars

\* A Grade asking for under_review has been refused on a submission that an
\* earlier Grade made the winner.
C30_Witness ==
    /\ last.op = "grade" /\ last.status = 400 /\ last.body.status = "under_review"
    /\ \E s \in submissions : s.id = last.target /\ s.status = "winner"

====
